---- MODULE Spec2Model ----
(***************************************************************************)
(* Model of src/agent/autonomous_agent.py: the PixelWarAgent remote        *)
(* client (paint_pixel, get_board_state, get_recent_events), its four      *)
(* strategies, the run loop and the main entry point.  One flow of         *)
(* control; pc is its position.  The remote service and the interrupt      *)
(* signal are the environment.                                             *)
(***************************************************************************)
EXTENDS Integers, Sequences, FiniteSets, TLC

VARIABLES
    pc,         \* position of the single flow of control
    my_pixels,  \* self.my_pixels
    iteration,  \* run's local counter
    closed,     \* number of times self.client.aclose() has completed
    board,      \* run's local: the value get_board_state returned
    args,       \* arguments of the strategy in execution
    i,          \* loop index of the strategy in execution
    events,     \* strategy_defend_territory's local: the fetched events
    log,        \* remote calls and pacing delays of the tick in progress
    lastPaint,  \* the latest paint_pixel call of the tick: response and result
    faults,     \* non-200 answers to POST /api/paint so far
    raised,     \* the exception that last reached run's level
    exit        \* how run ended

vars == <<pc, my_pixels, iteration, closed, board, args, i, events, log,
          lastPaint, faults, raised, exit>>

----------------------------------------------------------------------------
(* Bounds of the model *)

\* run's while-loop is cut after this many iterations
MaxIter == 2
\* random.randint / palette and taunt draws take this many values at each end of their range
Samples == 1
\* at most this many POST /api/paint calls are answered by something else than 200
MaxFaults == 1
\* GET /api/events/recent answers with at most this many events
MaxEvents == 2
\* draw-line, called directly, is given lengths up to this
MaxLen == 4

----------------------------------------------------------------------------
(* Program constants *)

BOARD_SIZE == 100

colors == <<"#FF0000", "#FF6B6B", "#00FF00", "#48DBFB",
            "#9B59B6", "#E91E63", "#FF9500", "#0066FF">>

\* "None" is Python's None: no taunt
taunts == <<"Chaos reigns!", "You cannot stop me!", "This pixel is mine now.",
            "The void consumes all.", "None">>

patterns ==
    [square |-> << <<0, 0>>, <<1, 0>>, <<2, 0>>,
                   <<0, 1>>,           <<2, 1>>,
                   <<0, 2>>, <<1, 2>>, <<2, 2>> >>,
     cross  |-> <<           <<1, 0>>,
                   <<0, 1>>, <<1, 1>>, <<2, 1>>,
                             <<1, 2>> >>,
     heart  |-> <<           <<1, 0>>, <<2, 0>>,           <<4, 0>>, <<5, 0>>,
                   <<0, 1>>, <<1, 1>>, <<2, 1>>, <<3, 1>>, <<4, 1>>, <<5, 1>>, <<6, 1>>,
                   <<0, 2>>, <<1, 2>>, <<2, 2>>, <<3, 2>>, <<4, 2>>, <<5, 2>>, <<6, 2>>,
                             <<1, 3>>, <<2, 3>>, <<3, 3>>, <<4, 3>>, <<5, 3>>,
                                       <<2, 4>>, <<3, 4>>, <<4, 4>>,
                                                 <<3, 5>> >>]

\* the list run draws the tick's action from
ACTION_LIST == <<"chaos", "chaos", "defend", "pattern", "line">>
PATTERN_NAMES == <<"square", "cross", "heart">>
DIRECTIONS == <<"horizontal", "vertical">>

\* the delays, in milliseconds
LINE_DELAY_MS == 100
PATTERN_DELAY_MS == 50
INTERVAL_MS == 1500
RECOVERY_MS == 5000

TERRITORY_MSG == "This is MY territory!"

----------------------------------------------------------------------------
(* The random source *)

\* random.randint(lo, hi), sampled at both ends of the range
RandomInt(lo, hi) == {v \in lo..hi : v < lo + Samples \/ v > hi - Samples}

\* random.choice(seq) over a short list: every entry
RandomChoice(seq) == {seq[k] : k \in 1..Len(seq)}

\* random.choice(seq) over the palette or the taunts, sampled at both ends
SampledChoice(seq) == {seq[k] : k \in RandomInt(1, Len(seq))}

----------------------------------------------------------------------------
(* Python values: JSON bodies and None *)

JsonValue(t, keys, items) == [t |-> t, keys |-> keys, items |-> items]
None == JsonValue("None", {}, <<>>)
Unset == JsonValue("unset", {}, <<>>)
EmptyList == JsonValue("array", {}, <<>>)
JsonObject(keys) == JsonValue("object", keys, <<>>)
JsonArray(items) == JsonValue("array", {}, items)

\* Python truth value of a parsed body
Truthy(v) ==
    \/ v.t = "object" /\ v.keys # {}
    \/ v.t = "array" /\ v.items # <<>>

\* subclasses of Exception; CancelledError and KeyboardInterrupt are BaseException only
ExceptionClasses == {"KeyError", "TypeError", "AttributeError", "ConnectError"}

----------------------------------------------------------------------------
(* The remote service: what it can answer *)

\* an answer: a transport error, or a status with a body
Response(err, status, body) == [err |-> err, status |-> status, body |-> body]
Malformed == JsonValue("malformed", {}, <<>>)
TransportError == Response(TRUE, 0, Malformed)

STATUSES == {200, 201, 500}
PaintResponses == {TransportError} \cup {Response(FALSE, s, EmptyList) : s \in STATUSES}

BoardResponses ==
    { TransportError,
      Response(FALSE, 200, JsonObject({"width", "height", "pixels"})),
      Response(FALSE, 200, Malformed),
      Response(FALSE, 200, None),
      Response(FALSE, 500, Malformed),
      Response(FALSE, 500, JsonObject({"status", "error"})) }

EventCoords == {<<0, 0>>, <<1, 0>>}
AGENT_SOURCE == "AI_AGENT:ChaosBot"
EventSet ==
    {[source |-> s, x |-> c[1], y |-> c[2]] : s \in {"HUMAN", AGENT_SOURCE}, c \in EventCoords}
    \cup {[source |-> "HUMAN", x |-> 0], [x |-> 0, y |-> 0]}

RECURSIVE SeqsUpTo(_, _)
SeqsUpTo(S, n) ==
    IF n = 0 THEN {<<>>}
    ELSE LET shorter == SeqsUpTo(S, n - 1)
         IN shorter \cup {Append(q, e) : q \in {r \in shorter : Len(r) = n - 1}, e \in S}

EventsResponses ==
    { TransportError,
      Response(FALSE, 200, Malformed),
      Response(FALSE, 200, None),
      Response(FALSE, 500, Malformed),
      Response(FALSE, 500, JsonObject({"status", "error"})) }
    \cup {Response(FALSE, 200, JsonArray(q)) : q \in SeqsUpTo(EventSet, MaxEvents)}

----------------------------------------------------------------------------
(* Remote Client *)

PaintOutcome(ret, pixels, exc) == [ret |-> ret, my_pixels |-> pixels, raised |-> exc]

\* paint_pixel without its except clause: the transport error leaves it
paint_pixel_raises(pixels, x, y, resp) ==
    IF resp.err
        THEN PaintOutcome(FALSE, pixels, "ConnectError")
    ELSE IF resp.status = 200
        THEN PaintOutcome(TRUE, pixels \cup {<<x, y>>}, "none")
    ELSE PaintOutcome(FALSE, pixels, "none")

\* paint_pixel assigning the set instead of adding to it
paint_pixel_replaces(pixels, x, y, resp) ==
    IF resp.err
        THEN PaintOutcome(FALSE, pixels, "none")
    ELSE IF resp.status = 200
        THEN PaintOutcome(TRUE, {<<x, y>>}, "none")
    ELSE PaintOutcome(FALSE, pixels, "none")

\* paint_pixel: the return value, self.my_pixels afterwards, the exception leaving it
paint_pixel(pixels, x, y, resp) ==
    IF resp.err
        THEN PaintOutcome(FALSE, pixels, "none")
    ELSE IF resp.status = 200
        THEN PaintOutcome(TRUE, pixels \cup {<<x, y>>}, "none")
    ELSE PaintOutcome(FALSE, pixels, "none")

\* get_board_state: response.json(), or None when the call or the parse raises
get_board_state(resp) ==
    IF resp.err \/ resp.body = Malformed THEN None ELSE resp.body

\* get_recent_events: response.json(), or [] when the call or the parse raises
get_recent_events(resp) ==
    IF resp.err \/ resp.body = Malformed THEN EmptyList ELSE resp.body

----------------------------------------------------------------------------
(* Log entries *)

Entry(op, x, y, color, message, ms) ==
    [op |-> op, x |-> x, y |-> y, color |-> color, message |-> message, ms |-> ms]
PaintCall(x, y, color, message) == Entry("paint", x, y, color, message, 0)
GetCall(op) == Entry(op, 0, 0, "", "", 0)
Sleep(ms) == Entry("sleep", 0, 0, "", "", ms)

NoArgs == [action |-> "none", pattern |-> "", x |-> 0, y |-> 0,
           length |-> 0, direction |-> "", color |-> ""]
NoPaint == [valid |-> FALSE, x |-> 0, y |-> 0, resp |-> TransportError, ret |-> FALSE]

----------------------------------------------------------------------------
(* run and main: the decisions *)

\* the startup gate without its return: the else branch falls through to the loop
run_startup_noReturn(b) ==
    IF Truthy(b)
        THEN IF b.t # "object" THEN "TypeError"
             ELSE IF {"width", "height"} \subseteq b.keys THEN "running"
             ELSE "KeyError"
    ELSE "running"

\* run, lines 177-182: what the startup gate does with the fetched board
run_startup(b) ==
    IF Truthy(b)
        THEN IF b.t # "object" THEN "TypeError"
             ELSE IF {"width", "height"} \subseteq b.keys THEN "running"
             ELSE "KeyError"
    ELSE "return"

\* the loop without its except Exception clause
run_except_noRecover(exc) ==
    IF exc = "KeyboardInterrupt" THEN "break" ELSE "propagate"

\* run, lines 225-230: what the loop does with an exception raised inside its try
run_except(exc) ==
    IF exc = "KeyboardInterrupt" THEN "break"
    ELSE IF exc \in ExceptionClasses THEN "recovery"
    ELSE "propagate"

\* main without try/finally: close is reached only when run returns
main_closes_noFinally(how) == how = "returned"

\* main, lines 240-243: whether agent.close() runs once run has ended
\* (how: "returned" or "raised")
main_closes(how) == how \in {"returned", "raised"}

----------------------------------------------------------------------------
(* Strategies: the decisions *)

InBounds(x, y) == 0 <= x /\ x < BOARD_SIZE /\ 0 <= y /\ y < BOARD_SIZE

\* draw-line with the two directions swapped
line_target_swapped(a, k) ==
    IF a.direction = "horizontal" THEN <<a.x, a.y + k>> ELSE <<a.x + k, a.y>>

\* strategy_draw_line: the coordinate of step k (k = 0 .. length-1)
line_target(a, k) ==
    IF a.direction = "horizontal" THEN <<a.x + k, a.y>> ELSE <<a.x, a.y + k>>

\* strategy_draw_pattern: the offsets walked for a pattern name
pattern_offsets(name) ==
    IF name \in DOMAIN patterns THEN patterns[name] ELSE <<>>

\* strategy_draw_pattern: the coordinate of offset k (k = 1 .. Len)
pattern_target(a, k) ==
    <<a.x + pattern_offsets(a.pattern)[k][1], a.y + pattern_offsets(a.pattern)[k][2]>>

\* the bounds test of line 163 without its lower bounds
pattern_paints_noLower(c) == c[1] < BOARD_SIZE /\ c[2] < BOARD_SIZE

\* strategy_draw_pattern, line 163: whether the coordinate is painted
pattern_paints(c) == InBounds(c[1], c[2])

\* strategy_draw_pattern, lines 161-163: the first offset from k on that is painted
\* (Len + 1 when there is none)
RECURSIVE pattern_next(_, _)
pattern_next(a, k) ==
    IF k > Len(pattern_offsets(a.pattern)) THEN k
    ELSE IF pattern_paints(pattern_target(a, k)) THEN k
    ELSE pattern_next(a, k + 1)

\* for event in events: the elements the loop walks, or the error iter() raises
IterLen(v) ==
    IF v.t = "array" THEN Len(v.items)
    ELSE IF v.t = "object" THEN Cardinality(v.keys)
    ELSE 0
Iterable(v) == v.t \in {"array", "object"}

\* defend without the source test of line 127
defend_event_anySource(e, pixels) ==
    IF ~({"x", "y"} \subseteq DOMAIN e) THEN "KeyError"
    ELSE IF <<e.x, e.y>> \in pixels THEN "paint"
    ELSE "skip"

\* defend with the membership test of line 129 inverted
defend_event_notOwned(e, pixels) ==
    IF "source" \in DOMAIN e /\ e.source = "HUMAN"
        THEN IF ~({"x", "y"} \subseteq DOMAIN e) THEN "KeyError"
             ELSE IF <<e.x, e.y>> \notin pixels THEN "paint"
             ELSE "skip"
    ELSE "skip"

\* defend without the membership test of line 129
defend_event_noOwner(e, pixels) ==
    IF "source" \in DOMAIN e /\ e.source = "HUMAN"
        THEN IF ~({"x", "y"} \subseteq DOMAIN e) THEN "KeyError"
             ELSE "paint"
    ELSE "skip"

\* strategy_defend_territory, lines 127-129: what is done with one event
defend_event(e, pixels) ==
    IF "source" \in DOMAIN e /\ e.source = "HUMAN"
        THEN IF ~({"x", "y"} \subseteq DOMAIN e) THEN "KeyError"
             ELSE IF <<e.x, e.y>> \in pixels THEN "paint"
             ELSE "skip"
    ELSE "skip"

----------------------------------------------------------------------------
(* The state after construction: main has built the agent and awaits run *)

Init ==
    /\ pc = "connecting"
    /\ my_pixels = {}
    /\ iteration = 0
    /\ closed = 0
    /\ board = Unset
    /\ args = NoArgs
    /\ i = 0
    /\ events = Unset
    /\ log = <<>>
    /\ lastPaint = NoPaint
    /\ faults = 0
    /\ raised = "none"
    /\ exit = "none"

RunningPcs == {"tick", "chaos", "line", "line_sleep", "pattern", "pattern_sleep",
               "defend", "defend_loop", "tick_sleep", "recovery"}
\* the positions inside the try block of run's loop
TryPcs == RunningPcs \ {"recovery"}

\* run ends (how: "returned" or "raised"); its locals and the strategy's go with it
LeaveRun(how, why) ==
    /\ pc' = IF main_closes(how) THEN "closing" ELSE "done"
    /\ exit' = why
    /\ args' = NoArgs
    /\ i' = 0
    /\ events' = Unset
    /\ log' = <<>>
    /\ lastPaint' = NoPaint

\* an exception exc leaves the strategy and reaches run's try block; ev is the
\* strategy's events local at that point.  log and lastPaint are the caller's.
Raise(exc, ev) ==
    /\ raised' = exc
    /\ IF run_except(exc) = "recovery"
           THEN /\ pc' = "recovery"
                /\ exit' = exit
                /\ events' = ev
                /\ UNCHANGED <<args, i>>
           ELSE /\ pc' = IF main_closes(IF run_except(exc) = "break" THEN "returned" ELSE "raised")
                            THEN "closing" ELSE "done"
                /\ exit' = IF run_except(exc) = "break" THEN "break" ELSE "exception"
                /\ args' = NoArgs
                /\ i' = 0
                /\ events' = Unset

----------------------------------------------------------------------------
(* run: the startup gate, lines 171-184 *)

Connect ==
    /\ pc = "connecting"
    /\ \E resp \in BoardResponses :
        LET b == get_board_state(resp)
            d == run_startup(b)
        IN /\ board' = b
           /\ IF d = "running"
                  THEN /\ pc' = "tick"
                       /\ log' = <<GetCall("get_board")>>
                       /\ UNCHANGED <<exit, raised, args, i, events, lastPaint>>
              ELSE IF d = "return"
                  THEN /\ LeaveRun("returned", "startup_failure")
                       /\ UNCHANGED raised
              ELSE /\ LeaveRun("raised", "exception")
                   /\ raised' = d
    /\ UNCHANGED <<my_pixels, iteration, closed, faults>>

----------------------------------------------------------------------------
(* One paint_pixel call made by a strategy; the strategy goes on at next *)

IsFault(resp) == resp.err \/ resp.status # 200

Paint(c, color, message, resp, next, nextI) ==
    LET r == paint_pixel(my_pixels, c[1], c[2], resp)
    IN /\ IsFault(resp) => faults < MaxFaults
       /\ faults' = IF IsFault(resp) THEN faults + 1 ELSE faults
       /\ my_pixels' = r.my_pixels
       /\ log' = Append(log, PaintCall(c[1], c[2], color, message))
       /\ lastPaint' = [valid |-> TRUE, x |-> c[1], y |-> c[2], resp |-> resp, ret |-> r.ret]
       /\ IF r.raised = "none"
              THEN /\ pc' = next
                   /\ i' = nextI
                   /\ UNCHANGED <<args, events, raised, exit>>
          ELSE Raise(r.raised, events)
       /\ UNCHANGED <<iteration, closed, board>>

----------------------------------------------------------------------------
(* run: one tick, lines 186-223 *)

\* lines 188-198: count the iteration and draw the action
StartTick(action) ==
    /\ pc = "tick"
    /\ iteration < MaxIter
    /\ action \in RandomChoice(ACTION_LIST)
    /\ iteration' = iteration + 1
    /\ log' = <<>>
    /\ lastPaint' = NoPaint
    /\ UNCHANGED <<my_pixels, closed, board, faults, raised, exit>>

SelectChaos ==
    /\ StartTick("chaos")
    /\ pc' = "chaos"
    /\ args' = [NoArgs EXCEPT !.action = "chaos"]
    /\ UNCHANGED <<i, events>>

SelectDefend ==
    /\ StartTick("defend")
    /\ pc' = "defend"
    /\ args' = [NoArgs EXCEPT !.action = "defend"]
    /\ UNCHANGED <<i, events>>

\* lines 206-212
SelectPattern ==
    /\ StartTick("pattern")
    /\ \E name \in RandomChoice(PATTERN_NAMES),
          x \in RandomInt(5, BOARD_SIZE - 15),
          y \in RandomInt(5, BOARD_SIZE - 15),
          color \in SampledChoice(colors) :
        /\ args' = [NoArgs EXCEPT !.action = "pattern", !.pattern = name,
                                  !.x = x, !.y = y, !.color = color]
        /\ i' = pattern_next(args', 1)
        /\ pc' = IF i' > Len(pattern_offsets(name)) THEN "tick_sleep" ELSE "pattern"
    /\ UNCHANGED events

\* lines 214-221
SelectLine ==
    /\ StartTick("line")
    /\ \E x \in RandomInt(0, BOARD_SIZE - 20),
          y \in RandomInt(0, BOARD_SIZE - 1),
          direction \in RandomChoice(DIRECTIONS),
          length \in RandomInt(5, 15),
          color \in SampledChoice(colors) :
        /\ args' = [NoArgs EXCEPT !.action = "line", !.x = x, !.y = y,
                                  !.direction = direction, !.length = length,
                                  !.color = color]
        /\ pc' = IF length > 0 THEN "line" ELSE "tick_sleep"
    /\ i' = 0
    /\ UNCHANGED events

\* random.randint(0, BOARD_SIZE) in place of lines 99-100
chaos_coords_offByOne == RandomInt(0, BOARD_SIZE)

\* strategy_random_chaos, lines 99-100: the values x and y are drawn from
chaos_coords == RandomInt(0, BOARD_SIZE - 1)

\* strategy_random_chaos, lines 97-111
ChaosPaint ==
    /\ pc = "chaos"
    /\ \E x \in chaos_coords,
          y \in chaos_coords,
          color \in SampledChoice(colors),
          taunt \in SampledChoice(taunts),
          resp \in PaintResponses :
        Paint(<<x, y>>, color, taunt, resp, "tick_sleep", i)

\* strategy_draw_line, lines 115-119: the paint of step i
LinePaint ==
    /\ pc = "line"
    /\ \E resp \in PaintResponses :
        Paint(line_target(args, i), args.color, "None", resp, "line_sleep", i)

\* the sleep of line 120 dedented out of the for loop: one delay, after the last step
line_pacing_afterLoop(k, n) == IF k + 1 < n THEN <<>> ELSE <<Sleep(LINE_DELAY_MS)>>

\* strategy_draw_line, line 120: the delays after the paint of step k of n
line_pacing(k, n) == <<Sleep(LINE_DELAY_MS)>>

\* strategy_draw_line, line 120: the delay after the paint, then the next step
LineSleep ==
    /\ pc = "line_sleep"
    /\ log' = log \o line_pacing(i, args.length)
    /\ i' = i + 1
    /\ pc' = IF i + 1 < args.length THEN "line" ELSE "tick_sleep"
    /\ UNCHANGED <<my_pixels, iteration, closed, board, args, events, lastPaint,
                   faults, raised, exit>>

\* strategy_draw_pattern, lines 161-164: the paint of offset i
PatternPaint ==
    /\ pc = "pattern"
    /\ \E resp \in PaintResponses :
        Paint(pattern_target(args, i), args.color, "None", resp, "pattern_sleep", i)

\* strategy_draw_pattern, line 165: the delay after the paint, then on to the
\* next offset that is painted
PatternSleep ==
    /\ pc = "pattern_sleep"
    /\ log' = Append(log, Sleep(PATTERN_DELAY_MS))
    /\ i' = pattern_next(args, i + 1)
    /\ pc' = IF i' > Len(pattern_offsets(args.pattern)) THEN "tick_sleep" ELSE "pattern"
    /\ UNCHANGED <<my_pixels, iteration, closed, board, args, events, lastPaint,
                   faults, raised, exit>>

\* strategy_defend_territory, lines 124-126: the fetch and the start of the loop
DefendFetch ==
    /\ pc = "defend"
    /\ \E resp \in EventsResponses :
        LET ev == get_recent_events(resp)
        IN /\ log' = Append(log, GetCall("get_events"))
           /\ IF Iterable(ev)
                  THEN /\ events' = ev
                       /\ i' = 1
                       /\ pc' = IF IterLen(ev) = 0 THEN "tick_sleep" ELSE "defend_loop"
                       /\ UNCHANGED <<args, raised, exit>>
              ELSE Raise("TypeError", ev)
    /\ UNCHANGED <<my_pixels, iteration, closed, board, lastPaint, faults>>

AfterEvent == IF i + 1 > IterLen(events) THEN "tick_sleep" ELSE "defend_loop"

\* strategy_defend_territory, lines 126-135: one event
DefendEvent ==
    /\ pc = "defend_loop"
    /\ IF events.t = "object"
           THEN /\ Raise("AttributeError", events)
                /\ UNCHANGED <<my_pixels, iteration, closed, board, log, lastPaint, faults>>
       ELSE LET e == events.items[i]
                d == defend_event(e, my_pixels)
            IN IF d = "paint"
                   THEN \E color \in SampledChoice(colors), resp \in PaintResponses :
                            Paint(<<e.x, e.y>>, color, TERRITORY_MSG, resp, AfterEvent, i + 1)
               ELSE IF d = "skip"
                   THEN /\ pc' = AfterEvent
                        /\ i' = i + 1
                        /\ UNCHANGED <<my_pixels, iteration, closed, board, args, events,
                                       log, lastPaint, faults, raised, exit>>
               ELSE /\ Raise(d, events)
                    /\ UNCHANGED <<my_pixels, iteration, closed, board, log, lastPaint, faults>>

\* run sleeping the interval in its except clause too
loop_delay_alwaysInterval(outcome) == INTERVAL_MS

\* run, lines 223 and 230: the delay that ends a tick (outcome: "normal" or "error")
loop_delay(outcome) == IF outcome = "error" THEN RECOVERY_MS ELSE INTERVAL_MS

\* line 223: the inter-tick delay; the strategy's frame is gone
TickSleep ==
    /\ pc = "tick_sleep"
    /\ pc' = "tick"
    /\ log' = <<Sleep(loop_delay("normal"))>>
    /\ args' = NoArgs
    /\ i' = 0
    /\ events' = Unset
    /\ lastPaint' = NoPaint
    /\ UNCHANGED <<my_pixels, iteration, closed, board, faults, raised, exit>>

\* lines 228-230: the recovery delay after an error; the strategy's frame is gone
Recovery ==
    /\ pc = "recovery"
    /\ pc' = "tick"
    /\ log' = <<Sleep(loop_delay("error"))>>
    /\ args' = NoArgs
    /\ i' = 0
    /\ events' = Unset
    /\ lastPaint' = NoPaint
    /\ UNCHANGED <<my_pixels, iteration, closed, board, faults, raised, exit>>

----------------------------------------------------------------------------
(* The interrupt signal.  Depending on the interpreter and on where the    *)
(* signal lands it surfaces as KeyboardInterrupt in the coroutine's code   *)
(* or as CancelledError at the pending await.                              *)

SIGNALS == {"KeyboardInterrupt", "CancelledError"}

Cancel ==
    /\ pc \in RunningPcs \cup {"connecting"}
    /\ \E sig \in SIGNALS :
        /\ raised' = sig
        /\ IF pc \in TryPcs /\ run_except(sig) = "recovery"
               THEN /\ pc' = "recovery"
                    /\ UNCHANGED <<args, i, events, log, lastPaint, exit>>
           ELSE IF pc \in TryPcs /\ run_except(sig) = "break"
               THEN LeaveRun("returned", "break")
           ELSE LeaveRun("raised", "cancelled")
    /\ UNCHANGED <<my_pixels, iteration, closed, board, faults>>

\* close, lines 232-234, called from main's finally
Close ==
    /\ pc = "closing"
    /\ closed' = closed + 1
    /\ pc' = "done"
    /\ UNCHANGED <<my_pixels, iteration, board, args, i, events, log, lastPaint,
                   faults, raised, exit>>

Next ==
    \/ Connect
    \/ SelectChaos
    \/ SelectDefend
    \/ SelectPattern
    \/ SelectLine
    \/ ChaosPaint
    \/ LinePaint
    \/ LineSleep
    \/ PatternPaint
    \/ PatternSleep
    \/ DefendFetch
    \/ DefendEvent
    \/ TickSleep
    \/ Recovery
    \/ Cancel
    \/ Close

Spec == Init /\ [][Next]_vars

----------------------------------------------------------------------------
(* A strategy called directly: strategy_draw_line and strategy_draw_pattern *)
(* take any arguments, not only those run draws.  The flow starts inside   *)
(* the strategy and ends where the strategy returns (pc = "tick_sleep").   *)

\* anchors: off the board, on its edges, inside
PatternAnchors == {-1, 0, 10, BOARD_SIZE - 4, BOARD_SIZE - 1}
LineStarts == {0, 5, BOARD_SIZE - 2}
\* the pattern names, and one that is not in the table
CalledNames == RandomChoice(PATTERN_NAMES) \cup {"spiral"}

LineArgs ==
    {[NoArgs EXCEPT !.action = "line", !.x = x, !.y = y, !.direction = d,
                    !.length = n, !.color = c] :
        x \in LineStarts, y \in LineStarts, d \in RandomChoice(DIRECTIONS),
        n \in 0..MaxLen, c \in SampledChoice(colors)}

PatternArgs ==
    {[NoArgs EXCEPT !.action = "pattern", !.pattern = name, !.x = x, !.y = y,
                    !.color = c] :
        name \in CalledNames, x \in PatternAnchors, y \in PatternAnchors,
        c \in SampledChoice(colors)}

InitStrategy ==
    /\ my_pixels = {}
    /\ iteration = 1
    /\ closed = 0
    /\ board = JsonObject({"width", "height"})
    /\ events = Unset
    /\ log = <<>>
    /\ lastPaint = NoPaint
    /\ faults = 0
    /\ raised = "none"
    /\ exit = "none"
    /\ args \in LineArgs \cup PatternArgs
    /\ i = IF args.action = "line" THEN 0 ELSE pattern_next(args, 1)
    /\ pc = IF args.action = "line"
                THEN IF args.length > 0 THEN "line" ELSE "tick_sleep"
            ELSE IF i > Len(pattern_offsets(args.pattern)) THEN "tick_sleep" ELSE "pattern"

NextStrategy ==
    \/ LinePaint
    \/ LineSleep
    \/ PatternPaint
    \/ PatternSleep

SpecStrategy == InitStrategy /\ [][NextStrategy]_vars

----------------------------------------------------------------------------
(* Properties *)

\* the step issues a paint_pixel call
PaintStep ==
    /\ Len(log') = Len(log) + 1
    /\ log'[Len(log')].op = "paint"
    /\ lastPaint'.valid

StoppedPcs == {"closing", "done"}

\* C1: when get_board_state returns None in connecting, run stops by the
\* startup-failure return: no iteration is ever counted (no strategy is
\* invoked), nothing is painted and no paint or event fetch is on the log.
C1_StartupFailureStops ==
    board = None =>
        /\ pc \in StoppedPcs
        /\ exit = "startup_failure"
        /\ iteration = 0
        /\ my_pixels = {}
        /\ \A k \in 1..Len(log) : log[k].op \notin {"paint", "get_events"}

C1_Witness == board = None /\ pc = "done" /\ exit = "startup_failure"

\* C2: in running, the loop is left only by the interrupt signal; the recovery
\* delay is entered only with an ordinary exception, an event lacking x or y
\* and an events value that cannot be iterated lead to it, it leads back to
\* the loop head, and the loop head leads to a new iteration.
C2_Step ==
    pc \in RunningPcs =>
        /\ pc' \notin RunningPcs =>
              (raised' \in SIGNALS /\ exit' \in {"break", "cancelled"})
        /\ (pc' = "recovery" /\ pc # "recovery") => raised' \in ExceptionClasses
        /\ (pc = "defend_loop" /\ events.t = "array" /\ pc' # pc /\ raised' \notin SIGNALS
                /\ defend_event(events.items[i], my_pixels) = "KeyError") =>
              pc' = "recovery"
        /\ (pc = "defend" /\ pc' # pc /\ raised' \notin SIGNALS /\ ~Iterable(events')) =>
              pc' = "recovery"
        /\ (pc = "recovery" /\ pc' \in RunningPcs /\ pc' # pc) =>
              (pc' = "tick" /\ log' = <<Sleep(RECOVERY_MS)>>)
        /\ (pc = "tick" /\ pc' \in RunningPcs /\ pc' # pc) =>
              iteration' = iteration + 1

C2_OnlyCancelStops == [][C2_Step]_vars

C2_Witness ==
    /\ pc \in {"chaos", "defend", "line", "pattern"}
    /\ iteration = 2
    /\ raised = "KeyError"

\* C3: a paint call answered by a transport error returns False, leaves
\* my_pixels as it was, raises nothing, and the strategy goes on where it
\* would after any paint; no transport error ever reaches run's handler, and
\* a tick of chaos, draw-line or draw-pattern never ends in the recovery delay.
C3_Step ==
    /\ (PaintStep /\ lastPaint'.resp.err) =>
          /\ lastPaint'.ret = FALSE
          /\ my_pixels' = my_pixels
          /\ raised' = raised
          /\ pc' \in {"tick_sleep", "line_sleep", "pattern_sleep", "defend_loop"}
    /\ raised' # "ConnectError"
    /\ pc' = "recovery" => args'.action = "defend"

C3_PaintFailureContained == [][C3_Step]_vars

C3_Witness ==
    /\ pc = "tick_sleep"
    /\ lastPaint.valid
    /\ lastPaint.resp.err
    /\ raised = "none"

\* C4: every paint call draw-pattern or draw-line issues, with the arguments
\* run draws for them, targets a coordinate inside the board.
C4_ShapePaintsInBounds ==
    args.action \in {"pattern", "line"} =>
        \A k \in 1..Len(log) : log[k].op = "paint" => InBounds(log[k].x, log[k].y)

\* C5: defend-territory paints only for the event at hand, and only when that
\* event's source is HUMAN and its coordinate is in my_pixels at that moment;
\* an agent-sourced event or one on a coordinate not owned leaves the log alone.
C5_Step ==
    (args.action = "defend" /\ PaintStep) =>
        /\ pc = "defend_loop"
        /\ events.t = "array"
        /\ "source" \in DOMAIN events.items[i]
        /\ events.items[i].source = "HUMAN"
        /\ <<events.items[i].x, events.items[i].y>> \in my_pixels
        /\ log'[Len(log')].x = events.items[i].x
        /\ log'[Len(log')].y = events.items[i].y

C5_DefendOnlyOwnedHuman == [][C5_Step]_vars

\* a reclaim has been issued, and a later event of the same pass was passed over
C5_Witness ==
    /\ args.action = "defend"
    /\ lastPaint.valid
    /\ pc = "tick_sleep"
    /\ Len(events.items) = 2
    /\ Len(log) = 2

\* C6: my_pixels only grows: it changes only in a paint step whose call
\* returns True, and then by exactly the painted coordinate; a paint that
\* returns True has its coordinate in the set, a paint that returns False
\* leaves the set as it was.
C6_Step ==
    /\ my_pixels \subseteq my_pixels'
    /\ my_pixels' # my_pixels =>
          /\ PaintStep
          /\ lastPaint'.ret
          /\ my_pixels' = my_pixels \cup {<<lastPaint'.x, lastPaint'.y>>}
    /\ (PaintStep /\ lastPaint'.ret) => <<lastPaint'.x, lastPaint'.y>> \in my_pixels'
    /\ (PaintStep /\ ~lastPaint'.ret) => my_pixels' = my_pixels

C6_OwnedOnlyGrows == [][C6_Step]_vars

\* a failed paint after several successful ones
C6_Witness ==
    /\ lastPaint.valid
    /\ ~lastPaint.ret
    /\ Cardinality(my_pixels) >= 2

Is2xx(status) == 200 <= status /\ status < 300

\* C7: paint returns True exactly when the POST is answered with a 200-class
\* status, and then the coordinate is in my_pixels.
C7_TrueIff2xx ==
    lastPaint.valid =>
        /\ lastPaint.ret <=> (~lastPaint.resp.err /\ Is2xx(lastPaint.resp.status))
        /\ lastPaint.ret => <<lastPaint.x, lastPaint.y>> \in my_pixels

\* C8: whatever the service answers, get_recent_events hands the strategy a
\* sequence of events (a list), never None.
C8_EventsAlwaysSequence == events = Unset \/ events.t = "array"

\* C9: get_board_state returns None or a value with width and height, and run
\* never leaves connecting by an exception of its own.
C9_BoardNoneOrDescriptor ==
    /\ board # Unset =>
          \/ board = None
          \/ board.t = "object" /\ {"width", "height"} \subseteq board.keys
    /\ ~(exit = "exception" /\ iteration = 0)

\* C10: once main is through, the connection has been released, and it is
\* released at most once; after the release the flow is at its end and issues
\* no remote call.
C10_Step ==
    /\ closed' <= 1
    /\ pc' = "done" => closed' = 1
    /\ closed >= 1 => (pc = "done" /\ log' = log /\ pc' = pc)

C10_ReleasedExactlyOnce == [][C10_Step]_vars

\* main is through after an exception escaped run
C10_Witness == pc = "done" /\ closed = 1 /\ exit = "exception"


\* the positions between two ticks: the loop head and the two delays
TickBoundaryPcs == {"tick", "tick_sleep", "recovery"}

\* C11: the interrupt takes effect only at a tick boundary: it never lands
\* while a strategy is in execution, and it leads to the shutdown path that
\* releases the connection.
C11_Step ==
    (pc \in RunningPcs /\ raised' \in SIGNALS /\ raised \notin SIGNALS) =>
        /\ pc \in TickBoundaryPcs
        /\ pc' = "closing"

C11_CancelOnlyBetweenTicks == [][C11_Step]_vars


IsPaint(e) == e.op = "paint"
\* the coordinates of the paint calls on a log, in order
PaintCoords(l) ==
    [k \in 1..Len(SelectSeq(l, IsPaint)) |->
        <<SelectSeq(l, IsPaint)[k].x, SelectSeq(l, IsPaint)[k].y>>]

IsPrefix(p, q) == Len(p) <= Len(q) /\ \A k \in 1..Len(p) : p[k] = q[k]

OnBoard(c) == 0 <= c[1] /\ c[1] < BOARD_SIZE /\ 0 <= c[2] /\ c[2] < BOARD_SIZE

\* the offsets of a pattern name added to the anchor, those off the board removed
ClippedTargets(name, x, y) ==
    IF name \in {"square", "cross", "heart"}
        THEN SelectSeq([k \in 1..Len(patterns[name]) |->
                           <<x + patterns[name][k][1], y + patterns[name][k][2]>>],
                       OnBoard)
    ELSE <<>>

\* C12: the coordinates draw-pattern paints are, in order, the pattern's
\* offsets added to the anchor with those off the board removed; nothing is
\* raised, and a name that is not in the table paints nothing.
C12_PatternPaintsClippedOffsets ==
    args.action = "pattern" =>
        /\ raised = "none"
        /\ IsPrefix(PaintCoords(log), ClippedTargets(args.pattern, args.x, args.y))
        /\ pc = "tick_sleep" =>
              /\ PaintCoords(log) = ClippedTargets(args.pattern, args.x, args.y)
              /\ args.pattern = "spiral" => log = <<>>
              /\ (args.pattern = "cross" /\ args.x = 10 /\ args.y = 10) =>
                    PaintCoords(log) =
                        << <<11, 10>>, <<10, 11>>, <<11, 11>>, <<12, 11>>, <<11, 12>> >>
              /\ (args.pattern = "square" /\ args.x = BOARD_SIZE - 1 /\ args.y = BOARD_SIZE - 1) =>
                    PaintCoords(log) = << <<BOARD_SIZE - 1, BOARD_SIZE - 1>> >>

\* a heart stamped across the top-left corner has returned, one paint having failed
C12_Witness ==
    /\ args.action = "pattern"
    /\ args.pattern = "heart"
    /\ args.x = -1
    /\ args.y = -1
    /\ pc = "tick_sleep"
    /\ faults = 1
    /\ Len(log) > 0

\* C13: draw-line with length n issues exactly n paint calls, at start + 0,
\* 1, .., n-1 along its axis, in order, unclipped, whether the paints succeed
\* or fail; length 0 issues none.
C13_LinePaintsExactlyLength ==
    args.action = "line" =>
        LET expected == [k \in 1..args.length |->
                            IF args.direction = "horizontal"
                                THEN <<args.x + k - 1, args.y>>
                            ELSE <<args.x, args.y + k - 1>>]
        IN /\ raised = "none"
           /\ IsPrefix(PaintCoords(log), expected)
           /\ pc = "tick_sleep" => PaintCoords(log) = expected
           /\ (pc = "tick_sleep" /\ args.length = 0) => log = <<>>

\* a line of 4 that runs off the board has returned, one paint having failed
C13_Witness ==
    /\ args.action = "line"
    /\ args.length = 4
    /\ args.x = BOARD_SIZE - 2
    /\ args.direction = "horizontal"
    /\ pc = "tick_sleep"
    /\ faults = 1
    /\ Cardinality(my_pixels) = 3


Palette == {colors[k] : k \in 1..Len(colors)}

\* C14: an invocation of random-chaos issues exactly one paint call, inside
\* the board and with a palette color: none before its step, one after it.
C14_ChaosOnePaintInBounds ==
    args.action = "chaos" =>
        /\ pc = "chaos" => log = <<>>
        /\ pc \in {"tick_sleep", "recovery"} =>
              /\ Len(log) = 1
              /\ log[1].op = "paint"
              /\ 0 <= log[1].x /\ log[1].x < BOARD_SIZE
              /\ 0 <= log[1].y /\ log[1].y < BOARD_SIZE
              /\ log[1].color \in Palette
        /\ pc \in {"chaos", "tick_sleep"}

\* random-chaos has painted the far corner
C14_Witness ==
    /\ args.action = "chaos"
    /\ pc = "tick_sleep"
    /\ Len(log) = 1
    /\ log[1].x = BOARD_SIZE - 1
    /\ log[1].y = BOARD_SIZE - 1


\* a human event on a coordinate the agent owns
Qualifies(e) ==
    /\ "source" \in DOMAIN e
    /\ e.source = "HUMAN"
    /\ {"x", "y"} \subseteq DOMAIN e
    /\ <<e.x, e.y>> \in my_pixels

\* the coordinates of the qualifying events of a sequence, in order, repeats kept
Reclaims(q) ==
    [k \in 1..Len(SelectSeq(q, Qualifies)) |->
        <<SelectSeq(q, Qualifies)[k].x, SelectSeq(q, Qualifies)[k].y>>]

\* C15: in a defend-territory pass the reclaim paints are the fetched events
\* filtered to human events on owned coordinates, in the order returned and
\* with repeats kept: of the events walked so far while the pass runs (or
\* when an event stops it), of all of them when it has returned.
C15_ReclaimsFollowEvents ==
    (args.action = "defend" /\ events.t = "array") =>
        /\ pc \in {"defend_loop", "recovery"} =>
              PaintCoords(log) = Reclaims(SubSeq(events.items, 1, i - 1))
        /\ pc = "tick_sleep" => PaintCoords(log) = Reclaims(events.items)

\* two human events on the same owned coordinate gave two reclaim calls
C15_Witness ==
    /\ args.action = "defend"
    /\ pc = "tick_sleep"
    /\ events.t = "array"
    /\ Len(events.items) = 2
    /\ events.items[1] = events.items[2]
    /\ PaintCoords(log) = << <<0, 0>>, <<0, 0>> >>


StrategyPcs == {"chaos", "line", "line_sleep", "pattern", "pattern_sleep",
                "defend", "defend_loop"}

\* the position belongs to the one strategy the tick drew
PcMatchesAction ==
    /\ pc = "chaos" => args.action = "chaos"
    /\ pc \in {"line", "line_sleep"} => args.action = "line"
    /\ pc \in {"pattern", "pattern_sleep"} => args.action = "pattern"
    /\ pc \in {"defend", "defend_loop"} => args.action = "defend"

\* C16: one strategy is in execution at a time, and inside draw-line and
\* draw-pattern every paint call is followed by its pacing delay before the
\* next paint call: on the log no paint is followed by another paint, and a
\* paint that is last on the log has its delay pending.
C16_PaintsPaced ==
    /\ PcMatchesAction
    /\ args.action \in {"line", "pattern"} =>
          \A k \in 1..Len(log) :
              log[k].op = "paint" =>
                  IF k < Len(log)
                      THEN log[k + 1] = Sleep(IF args.action = "line"
                                                  THEN LINE_DELAY_MS ELSE PATTERN_DELAY_MS)
                  ELSE pc \in {"line_sleep", "pattern_sleep", "recovery"}

\* draw-line is about to issue its third paint
C16_Witness ==
    /\ args.action = "line"
    /\ pc = "line"
    /\ Len(log) = 4

\* C17: a tick is one iteration and one strategy, and the loop head is reached
\* again only through one delay: the inter-tick interval after a strategy that
\* returned, the recovery delay after one that raised, never both.
C17_Step ==
    /\ iteration' \in {iteration, iteration + 1}
    /\ iteration' = iteration + 1 =>
          /\ pc = "tick"
          /\ pc' \in StrategyPcs \cup {"tick_sleep"}
          /\ args'.action \in {"chaos", "defend", "pattern", "line"}
          /\ iteration >= 1 => (log = <<Sleep(INTERVAL_MS)>> \/ log = <<Sleep(RECOVERY_MS)>>)
    /\ (args' # args /\ args' # NoArgs) => iteration' = iteration + 1
    /\ (pc' \in StrategyPcs /\ pc \notin StrategyPcs) => iteration' = iteration + 1
    /\ (pc' = "tick" /\ pc # "tick") =>
          \/ pc = "connecting" /\ iteration' = 0
          \/ pc = "tick_sleep" /\ log' = <<Sleep(INTERVAL_MS)>>
          \/ pc = "recovery" /\ log' = <<Sleep(RECOVERY_MS)>>
    /\ (pc' = "tick_sleep" /\ pc # "tick_sleep") => pc \in StrategyPcs \cup {"tick"}
    /\ (pc' = "recovery" /\ pc # "recovery") => pc \in StrategyPcs

C17_OneDelayBetweenTicks == [][C17_Step]_vars

\* the second tick has started after the first one raised
C17_Witness ==
    /\ pc = "chaos"
    /\ iteration = 2
    /\ raised = "TypeError"

\* C18: defend-territory leaves my_pixels as it was: whatever the events and
\* the paint outcomes, no step of a pass changes the set, every reclaim is for
\* a coordinate already in it, and a fetch that yields no event list (or an
\* empty one) is followed by no paint call.
C18_Step ==
    /\ args.action = "defend" => my_pixels' = my_pixels
    /\ (args.action = "defend" /\ PaintStep) =>
          <<lastPaint'.x, lastPaint'.y>> \in my_pixels
    /\ (args'.action = "defend" /\ (events'.t # "array" \/ events'.items = <<>>)) =>
          PaintCoords(log') = <<>>

C18_DefendKeepsOwned == [][C18_Step]_vars

\* a pass has returned after a reclaim that the service accepted
C18_Witness ==
    /\ args.action = "defend"
    /\ pc = "tick_sleep"
    /\ lastPaint.valid
    /\ lastPaint.ret
    /\ lastPaint.resp.status = 200

====
